---- MODULE Spec2Model ----
(***************************************************************************)
(* Reference reconciliation of the MSFS unit-test framework.               *)
(*                                                                         *)
(* ComponentTestHelper.renderComponent renders a component, mounts the     *)
(* rendered VNode tree into the helper's container with FSComponent.render *)
(* (which rebinds refs positionally, reestablishRefs), and then reconciles *)
(* every collected ref in two phases: Phase 1, direct DOM queries per ref, *)
(* and Phase 2, the recursive reconcileRefs walk.                          *)
(*                                                                         *)
(* A rendered tree is a sequence of slots in pre-order (document order).   *)
(* Slot 1 is the root VNode.  Every other slot is a child item of an       *)
(* earlier VNode slot: either a VNode built by the JSX factory or a raw    *)
(* DOM element handed in as a child.  A VNode slot may sit inside a nested *)
(* array of its parent's children (the result of a .map() call).  The tree *)
(* is listed slot by slot while the component renders, each slot standing  *)
(* for one FSComponent.buildComponent call.                                *)
(*                                                                         *)
(* DOM nodes are numbers: slot s was built as element s; when the mount    *)
(* has to recreate the tree in the target document, the copy of element s  *)
(* is element s + CloneOff.  Text children are left out of the trees:      *)
(* both walks filter them out of the DOM child list and never match them.  *)
(***************************************************************************)
EXTENDS Integers, Sequences, FiniteSets, TLC

VARIABLES
  tree,     \* the rendered VNode tree (fixed once rendered)
  pc,       \* position inside renderComponent
  inst,     \* ref.instance of the ref of every slot (Null: unset, or no ref)
  vinst,    \* vnode.instance of every VNode slot
  root,     \* the element mounted into the container (Null before the mount)
  matched,  \* the matchedDomNodes set of Phase 2
  walk,     \* the child matches of the Phase 2 walk, in order: the parent's
            \* element, the child VNode, the element it was matched to, and
            \* the cursor domElementIndex before and after
  how,      \* the statement that last assigned each ref.instance
  cell,     \* a Subject: its value and its subscribers array
  calls,    \* the callback invocations of the last Subject operation, in order
  op,       \* the last Subject operation and how it ended
  handles,  \* the handles sub has returned, per callback: how many are not
            \* destroyed, and whether one has been destroyed
  component,\* the component renderComponent constructed: the hooks it has
  hooks,    \* the lifecycle hooks invoked since component.render() began
  container,\* the helper's container: its element children, and whether it
            \* is attached to the document body
  element,  \* the element the last renderComponent call returned
  style,    \* the inline style property bound to the Subject, per element
  simVarMock,   \* the SimVarMock singleton: simVars, registeredIds, accessLog
  coherentMock, \* the CoherentMock singleton: callHandlers, callHistory
  document,     \* globalThis.document
  env,          \* the TestEnvironment: its jsdom, what setup() saved
  did,      \* the last call made on the environment, and what it returned
  dom,      \* the attributes and the expando properties of every element
            \* built for a VNode with a data prop
  selector  \* the last attribute selector reconciliation queried, and what
            \* the query found

vars == <<tree, pc, inst, vinst, root, matched, walk, how, cell, calls, op, handles, component, hooks,
          container, element, style, simVarMock, coherentMock, document, env, did,
          dom, selector>>

\* The helper's container as a list, what the helper returned, and the bound
\* style property.
helperVars == <<container, element, style>>

\* The elements built from data props and the selector looked up for them:
\* only the build and the lookup of a data prop touch them.
domVars == <<dom, selector>>

\* The mocks behind the SimVar and Coherent globals, the global document and
\* the TestEnvironment: building and reconciling a tree leaves them alone.
envVars == <<simVarMock, coherentMock, document, env, did>>

\* The variables of the Subject: renderComponent leaves them alone.
cellVars == <<cell, calls, op, handles>>

\* The variables of renderComponent: the Subject leaves them alone.
renderVars == <<tree, pc, inst, vinst, root, matched, walk, how, component, hooks>>

\* The component and the log of its hooks: the build, the mount and the two
\* phases leave them alone.
lifeVars == <<component, hooks>>

\* Largest number of slots (VNodes and raw DOM children) of a rendered tree.
MaxSlots == 3

\* createRef(): { instance: null }; also "no node" results of DOM queries.
Null == 0

----------------------------------------------------------------------------
(* The rendered trees *)

NoClass == << >>

Types == {"circle", "span"}

SvgTags == {"g", "circle"}

\* Attribute profiles an element is rendered with: id, class tokens, data-range.
Profiles ==
  { [id |-> "",  cls |-> NoClass,       data |-> ""],
    [id |-> "a", cls |-> NoClass,       data |-> ""],
    [id |-> "b", cls |-> NoClass,       data |-> ""],
    [id |-> "",  cls |-> <<"y">>,       data |-> ""],
    [id |-> "",  cls |-> <<"y", "z">>,  data |-> ""],
    [id |-> "",  cls |-> <<"y">>,       data |-> "1"],
    [id |-> "",  cls |-> <<"y">>,       data |-> "2"] }

Slot(kind, type, p, ref, arr, parent) ==
  [kind |-> kind, type |-> type, id |-> p.id, cls |-> p.cls, data |-> p.data,
   ref |-> ref, arr |-> arr, parent |-> parent]

\* The root VNode: a plain <g>, with or without a ref.
RootSlots == { Slot("vnode", "g", [id |-> "", cls |-> NoClass, data |-> ""], r, FALSE, 0) :
                 r \in BOOLEAN }

\* VNode children that carry a ref.
RefSlots(parent) ==
  { Slot("vnode", t, p, TRUE, a, parent) : t \in Types, p \in Profiles, a \in BOOLEAN }

\* VNode children without a ref, and raw DOM elements passed as children.
PlainSlots(parent) ==
  { Slot("vnode", "circle", [id |-> "", cls |-> <<"y">>, data |-> ""], FALSE, a, parent) :
      a \in BOOLEAN }
  \cup { Slot("node", t, p, FALSE, FALSE, parent) :
           t \in Types,
           p \in { [id |-> "", cls |-> <<"y">>, data |-> ""],
                   [id |-> "a", cls |-> NoClass, data |-> ""] } }

ChildSlots(parent) == RefSlots(parent) \cup PlainSlots(parent)

\* An element rendered without id, class or data-range attribute.
Plain == [id |-> "", cls |-> NoClass, data |-> ""]

\* Larger trees, built by hand:
\* <g>
\*   {[ <g>{rawCircle}{rawSpan}<span class="y z" ref={v}/></g> ]}
\*   <g><x1/><x2/><circle ref={x3}/></g>
\* </g>
\* where rawCircle and rawSpan are DOM elements; rawSpan has class "y" or "y z".
DeepTrees ==
  { << Slot("vnode", "g", Plain, rr, FALSE, 0),
       Slot("vnode", "g", Plain, FALSE, TRUE, 1),
       Slot("node", "circle", Plain, FALSE, FALSE, 2),
       Slot("node", "span", [id |-> "", cls |-> c, data |-> ""], FALSE, FALSE, 2),
       Slot("vnode", "span", [id |-> "", cls |-> <<"y", "z">>, data |-> ""], TRUE, a, 2),
       Slot("vnode", "g", Plain, FALSE, FALSE, 1),
       Slot("vnode", t1, Plain, r1, FALSE, 6),
       Slot("vnode", t2, Plain, r2, FALSE, 6),
       Slot("vnode", "circle", Plain, TRUE, FALSE, 6) >> :
      rr \in BOOLEAN, c \in {<<"y">>, <<"y", "z">>}, a \in BOOLEAN,
      t1 \in Types, r1 \in BOOLEAN, t2 \in Types, r2 \in BOOLEAN }

\* Number of slots of the hand-built trees of DeepTrees.
DeepSlots == 9

\* Distance between the number of an element and the number of its recreated
\* copy: more than any tree has slots.
CloneOff == MaxSlots + DeepSlots

RECURSIVE Ancestors(_, _)
\* The slots on the path from slot s up to the root, s included.
Ancestors(t, s) == IF s = 0 THEN {} ELSE {s} \cup Ancestors(t, t[s].parent)

----------------------------------------------------------------------------
(* The DOM *)

N == Len(tree)

\* The slot an element was built from (a recreated element copies its slot).
Orig(d) == IF d > CloneOff THEN d - CloneOff ELSE d

GenOff(d) == IF d > CloneOff THEN CloneOff ELSE 0

Upper == [t \in {"g", "circle", "span"} |->
            IF t = "span" THEN "SPAN" ELSE IF t = "g" THEN "G" ELSE "CIRCLE"]

Lower == [t \in {"g", "circle", "span", "G", "CIRCLE", "SPAN"} |->
            IF t \in {"g", "G"} THEN "g"
            ELSE IF t \in {"circle", "CIRCLE"} THEN "circle" ELSE "span"]

\* Element.tagName: HTML elements report it in upper case, SVG elements as created.
TagName(d) ==
  LET t == tree[Orig(d)].type IN IF t \in SvgTags THEN t ELSE Upper[t]

\* tagName.toLowerCase() === type.toLowerCase()
TagMatches(d, type) == Lower[TagName(d)] = Lower[type]

\* The child items of slot v, in order.
Kids(v) == SelectSeq([i \in 1..N |-> i], LAMBDA s : tree[s].parent = v)

\* Array.from(domNode.childNodes) filtered to elements.
DomKids(d) ==
  LET k == Kids(Orig(d)) IN [i \in 1..Len(k) |-> k[i] + GenOff(d)]

\* The elements inside the container, in document order.
Mounted == IF root = Null THEN << >> ELSE [i \in 1..N |-> i + GenOff(root)]

\* container.contains(x)
InContainer(x) == x # Null /\ root # Null /\ GenOff(x) = GenOff(root)

\* d.contains(x)
Contains(d, x) ==
  x # Null /\ GenOff(x) = GenOff(d) /\ Orig(d) \in Ancestors(tree, Orig(x))

\* indexOf, 0 when absent (the code's -1).
IndexOf(seq, x) ==
  LET I == { i \in DOMAIN seq : seq[i] = x } IN
  IF I = {} THEN 0 ELSE CHOOSE i \in I : \A j \in I : i <= j

\* Array.prototype.find / querySelector: the first element satisfying P.
First(seq, P(_)) ==
  LET I == { i \in DOMAIN seq : P(seq[i]) } IN
  IF I = {} THEN Null ELSE seq[CHOOSE i \in I : \A j \in I : i <= j]

HasClass(d, c) == \E i \in DOMAIN tree[Orig(d)].cls : tree[Orig(d)].cls[i] = c

\* The lookup by id made among the elements as they were built, not among
\* the elements of the container.
QueryIdDetached(id) == First([i \in 1..N |-> i], LAMBDA d : tree[Orig(d)].id = id)

\* querySelector(`#${id}`) on the container.
QueryId(id) == First(Mounted, LAMBDA d : tree[Orig(d)].id = id)

\* querySelector(`${type}[data-range="${value}"]`) on the container.
QueryData(type, value) ==
  First(Mounted, LAMBDA d : tree[Orig(d)].type = type /\ tree[Orig(d)].data = value)

\* querySelectorAll(`${type}.${primaryClass}`) below element scope (the
\* container when scope is Null), in document order.
QueryClassAll(scope, type, c) ==
  SelectSeq(Mounted, LAMBDA d : /\ tree[Orig(d)].type = type
                                /\ HasClass(d, c)
                                /\ (scope # Null => (d # scope /\ Contains(scope, d))))

----------------------------------------------------------------------------
(* State after component.render() and collectRefs *)

\* The refs collected from the VNode tree, in the order collectRefs meets them.
Handles == { s \in 1..N : tree[s].ref }

VNodes == { s \in 1..N : tree[s].kind = "vnode" }

----------------------------------------------------------------------------
(* SimVarMock and CoherentMock: the operations of the two singletons. *)

\* A string is the sequence of its pieces; "|" is the one character getKey
\* inserts and parseKey splits on, every other piece is free of it.
Bar == "|"

\* SimVar names tests pass: a plain L-var, and one whose name holds a "|".
Names == { <<"L:A">>, <<"L:A", Bar, "B">> }

Units == { <<"number">>, <<"bool">> }

\* The dataSource argument left at its default ''.
DataSources == { << >> }

\* JavaScript values by their literal: the numbers 0, 1 and 7, the booleans
\* and the string '7'.
JsValues == {"0", "1", "7", "true", "false", "'7'"}

\* Number(value)
Number == [v \in JsValues |->
            CASE v \in {"0", "false"} -> "0"
              [] v \in {"1", "true"} -> "1"
              [] OTHER -> "7"]

\* String(value)
StringOf == [v \in JsValues |->
              CASE v = "0" -> "'0'" [] v = "1" -> "'1'" [] v = "true" -> "'true'"
                [] v = "false" -> "'false'" [] OTHER -> "'7'"]

\* value ? 1 : 0
Truthy == [v \in JsValues |-> IF v \in {"0", "false"} THEN "0" ELSE "1"]

\* unit.toLowerCase().includes(word), for units written in lower case
Includes(unit, word) == \E i \in 1..Len(unit) : unit[i] = word

coerceValue(value, unit) ==
  IF Includes(unit, "bool") THEN Truthy[value]
  ELSE IF Includes(unit, "string") THEN StringOf[value]
  ELSE Number[value]

getDefaultValue(unit) ==
  IF Includes(unit, "bool") THEN "0"
  ELSE IF Includes(unit, "string") THEN "''"
  ELSE "0"

\* `${name}|${unit}|${dataSource}`
getKey(name, unit, dataSource) == name \o <<Bar>> \o unit \o <<Bar>> \o dataSource

\* key.split('|')
RECURSIVE Split(_)
Split(s) ==
  IF \A i \in 1..Len(s) : s[i] # Bar THEN <<s>>
  ELSE LET i == CHOOSE i \in 1..Len(s) : s[i] = Bar /\ \A j \in 1..(i - 1) : s[j] # Bar
       IN  <<SubSeq(s, 1, i - 1)>> \o Split(SubSeq(s, i + 1, Len(s)))

\* [parts[0], parts[1], parts[2] || '']
parseKey(key) ==
  LET parts == Split(key)
  IN  <<parts[1], parts[2], IF Len(parts) >= 3 THEN parts[3] ELSE << >>>>

maxLogSize == 10000

\* The setSimVarValue calls of initializeDefaults.
Defaults == 11

\* The access log is its leading entries, counted, then the entries written
\* since: the leading ones are the 'set' entries of initializeDefaults and of
\* setSimVarValue calls on those same default variables, which no reader here
\* tells apart.
LogLength(log) == log.head + Len(log.tail)

\* accessLog.push(entry); if (length > maxLogSize) accessLog = accessLog.slice(-maxLogSize)
logAccess(log, entry) ==
  LET pushed == [log EXCEPT !.tail = Append(@, entry)]
      over == LogLength(pushed) - maxLogSize
  IN  IF over <= 0 THEN pushed
      ELSE IF over <= pushed.head THEN [pushed EXCEPT !.head = @ - over]
      ELSE [head |-> 0,
            tail |-> SubSeq(pushed.tail, over - pushed.head + 1, Len(pushed.tail))]

\* The mock after reset() or construction: only the default variables, which
\* are outside Names and which the model leaves out of simVars, and their
\* 'set' entries.
NewSimVarMock ==
  [simVars |-> << >>, registeredIds |-> << >>, nextRegisteredId |-> 0,
   accessLog |-> [head |-> Defaults, tail |-> << >>]]

\* simVars.set(key, v): simVars is the function from the keys it has.
MapSet(map, key, v) == [k \in (DOMAIN map) \cup {key} |-> IF k = key THEN v ELSE map[k]]

setSimVarValue(m, name, unit, value, dataSource) ==
  [m EXCEPT !.simVars = MapSet(@, getKey(name, unit, dataSource), coerceValue(value, unit)),
            !.accessLog = logAccess(@, [name |-> name, unit |-> unit,
                                        operation |-> "set", value |-> value])]

\* What getSimVarValue returns.
SimVarValueOf(m, name, unit, dataSource) ==
  LET key == getKey(name, unit, dataSource)
  IN  IF key \in DOMAIN m.simVars THEN m.simVars[key] ELSE getDefaultValue(unit)

\* The mock after getSimVarValue: the read is logged with simVar?.value.
getSimVarValue(m, name, unit, dataSource) ==
  LET key == getKey(name, unit, dataSource)
  IN  [m EXCEPT !.accessLog =
         logAccess(@, [name |-> name, unit |-> unit, operation |-> "get",
                       value |-> IF key \in DOMAIN m.simVars THEN m.simVars[key]
                                 ELSE "undefined"])]

\* registeredSimVars.get(key): the id registered for a key, -1 for none.
RegisteredSimVar(m, key) ==
  IF \E id \in DOMAIN m.registeredIds : m.registeredIds[id] = key
    THEN CHOOSE id \in DOMAIN m.registeredIds : m.registeredIds[id] = key
    ELSE 0 - 1

\* The mock after getRegisteredId; the id it returns is RegisteredSimVar of
\* the key afterwards.
getRegisteredId(m, name, unit, dataSource) ==
  LET key == getKey(name, unit, dataSource)
      id == m.nextRegisteredId
      reg == [m EXCEPT !.nextRegisteredId = @ + 1,
                       !.registeredIds = MapSet(@, id, key)]
  IN  IF RegisteredSimVar(m, key) >= 0 THEN m
      ELSE IF key \in DOMAIN m.simVars THEN reg
      ELSE setSimVarValue(reg, name, unit, getDefaultValue(unit), dataSource)

\* What getValueReg returns; it writes no log entry.
getValueReg(m, registeredId) ==
  IF registeredId \notin DOMAIN m.registeredIds THEN "null"
  ELSE IF m.registeredIds[registeredId] \in DOMAIN m.simVars
    THEN m.simVars[m.registeredIds[registeredId]]
  ELSE "null"

setValueReg(m, registeredId, value) ==
  IF registeredId \notin DOMAIN m.registeredIds THEN m
  ELSE LET p == parseKey(m.registeredIds[registeredId])
       IN  setSimVarValue(m, p[1], p[2], value, p[3])

maxHistorySize == 10000

Methods == {"setValueReg_Number", "setValueReg_String", "setValueReg_Bool"}

\* initializeDefaultHandlers: every handler resolves and does nothing else.
NewCoherentMock ==
  [callHistory |-> << >>, callHandlers |-> [method \in Methods |-> "default"]]

\* The state before TestEnvironment.setup(): the two singletons as their
\* modules construct them, no jsdom and no global document.
NoEnv ==
  /\ simVarMock = NewSimVarMock
  /\ coherentMock = NewCoherentMock
  /\ document = 0
  /\ env = [dom |-> 0, originalDocument |-> 0, doms |-> 0, globals |-> FALSE]
  /\ did = [n |-> 0, name |-> "none", prev |-> "none", reset |-> FALSE]

\* No element with a data prop has been built, no selector queried.
NoDom ==
  /\ dom = << >>
  /\ selector = [attr |-> << >>, found |-> Null]

\* A fresh helper, whose container is empty, and no bound style.
NoHelper ==
  /\ container = [children |-> << >>, attached |-> TRUE]
  /\ element = Null
  /\ style = << >>

\* The callbacks handed to sub, named after what they do when the Subject
\* invokes them from set: "f" and "g" return, "once" destroys its own
\* subscription, "bad" throws.
Callbacks == {"f", "g", "once", "bad"}

\* A callback that writes the cell back: invoked with a value other than 0,
\* it calls set(0) on the same Subject.
AllCallbacks == Callbacks \cup {"clamp"}

NoHandles == [cb \in AllCallbacks |-> [live |-> 0, dead |-> FALSE]]

\* No Subject has been created.
NoCell ==
  /\ cell = [value |-> 0, subscribers |-> << >>]
  /\ calls = << >>
  /\ op = [name |-> "none"]
  /\ handles = NoHandles

\* The state buildComponent leaves behind for a tree of slots t: every ref
\* and every VNode is bound to the element created for it.
Built(t) ==
  /\ tree = t
  /\ pc = "render"
  /\ inst = [s \in 1..Len(t) |-> IF t[s].ref THEN s ELSE Null]
  /\ vinst = [s \in 1..Len(t) |-> IF t[s].kind = "vnode" THEN s ELSE Null]
  /\ root = Null
  /\ matched = {}
  /\ walk = << >>
  /\ how = [s \in 1..Len(t) |-> IF t[s].ref THEN "build" ELSE "none"]
  /\ \E b \in BOOLEAN : component = [onAfterRender |-> b]
  /\ hooks = << >>
  /\ NoCell
  /\ NoHelper
  /\ NoDom
  /\ NoEnv

Init == \E r \in RootSlots : Built(<<r>>)

\* FSComponent.buildComponent for one more child item, listed in pre-order: it
\* hangs under a VNode on the rightmost path of the tree listed so far.
BuildComponent ==
  /\ pc = "render"
  /\ N < MaxSlots
  /\ \E par \in { a \in Ancestors(tree, N) : tree[a].kind = "vnode" } :
       \E c \in ChildSlots(par) :
         /\ tree' = Append(tree, c)
         /\ inst' = Append(inst, IF c.ref THEN N + 1 ELSE Null)
         /\ vinst' = Append(vinst, IF c.kind = "vnode" THEN N + 1 ELSE Null)
         /\ how' = Append(how, IF c.ref THEN "build" ELSE "none")
  /\ UNCHANGED <<pc, root, matched, walk>>
  /\ UNCHANGED <<cellVars, lifeVars, helperVars, envVars, domVars>>

----------------------------------------------------------------------------
(* FSComponent.render: mount and positional rebinding *)

RECURSIVE ReestablishRefs(_, _, _), ReestablishKids(_, _, _, _, _)

\* reestablishRefs(vnode, domNode): stamp the VNode and its ref with the DOM
\* node, then pair the VNode's children with the element children by position.
ReestablishRefs(st, v, d) ==
  LET st1 == [st EXCEPT !.vinst[v] = d,
                        !.inst[v] = IF tree[v].ref THEN d ELSE @,
                        !.how[v] = IF tree[v].ref THEN "mount" ELSE @]
  IN ReestablishKids(st1, Kids(v), 1, DomKids(d), 1)

\* vnode.children.forEach: only entries that have a type or an instance are
\* paired; a nested array and a raw DOM node have neither and are passed over
\* without consuming a DOM child.
ReestablishKids(st, kids, k, domChildren, domIndex) ==
  IF k > Len(kids) THEN st
  ELSE IF tree[kids[k]].kind = "vnode" /\ ~tree[kids[k]].arr /\ domIndex <= Len(domChildren)
       THEN ReestablishKids(ReestablishRefs(st, kids[k], domChildren[domIndex]),
                            kids, k + 1, domChildren, domIndex + 1)
       ELSE ReestablishKids(st, kids, k + 1, domChildren, domIndex)

\* recreateNodeInDocument: the element is already of the target document
\* ("same"), is adopted into it ("adopt"), or is recreated node by node with
\* its attributes and children copied ("recreate").
RecreateNodeInDocument(d, mode) == IF mode = "recreate" THEN d + CloneOff ELSE d

MountModes == {"same", "adopt", "recreate"}

\* FSComponent.render(vnode, this.container)
Mount ==
  /\ pc = "render"
  /\ \E mode \in MountModes :
       LET rootNode == RecreateNodeInDocument(vinst[1], mode)
           st == ReestablishRefs([inst |-> inst, vinst |-> vinst, how |-> how], 1, rootNode)
       IN /\ root' = rootNode
          /\ inst' = st.inst
          /\ vinst' = st.vinst
          /\ how' = st.how
  /\ pc' = "mounted"
  /\ UNCHANGED <<tree, matched, walk>>
  /\ UNCHANGED <<cellVars, lifeVars, helperVars, envVars, domVars>>

----------------------------------------------------------------------------
(* Phase 1: direct DOM queries, one ref after the other *)

\* Array.from(refsMap.keys()).some(otherRef => otherRef !== ref && otherRef.instance === el)
IsAlreadyAssigned(ins, h, el) == \E o \in Handles \ {h} : ins[o] = el

\* classNames.length > 1 && !classNames.every(cn => el.classList.contains(cn))
EveryClass(el, classNames) ==
  Len(classNames) > 1 => \A i \in DOMAIN classNames : HasClass(el, classNames[i])

\* The identifiers that are not CSS identifiers: querySelector('#' + id) and
\* querySelectorAll(type + '.' + class) throw a SyntaxError for them.
BadIdents == {"1a"}

\* The body of refsMap.forEach for ref h on the refs' instances and the
\* record of what assigned them; threw: a query threw, which ends the loop.
Phase1Ref(st, h) ==
  LET v == tree[h]
      ins == st.inst
      byId == IF v.id # "" THEN QueryId(v.id) ELSE Null
      byData == IF ins[h] = Null /\ v.data # "" THEN QueryData(v.type, v.data) ELSE Null
      dataOk == byData # Null /\ TagMatches(byData, v.type)
      byClass ==
        IF v.cls # NoClass
        THEN First(QueryClassAll(Null, v.type, v.cls[1]),
                   LAMBDA el : /\ TagMatches(el, v.type)
                               /\ EveryClass(el, v.cls)
                               /\ ~IsAlreadyAssigned(ins, h, el))
        ELSE Null
  IN
  IF ins[h] # Null /\ InContainer(ins[h]) THEN st
  ELSE IF v.id \in BadIdents THEN [st EXCEPT !.threw = TRUE]
  ELSE IF byId # Null /\ TagMatches(byId, v.type)
       THEN [st EXCEPT !.inst[h] = byId, !.how[h] = "id1"]
  ELSE IF dataOk /\ ~InContainer(byData) THEN st
  ELSE IF dataOk /\ ~IsAlreadyAssigned(ins, h, byData)
       THEN [st EXCEPT !.inst[h] = byData, !.how[h] = "data1"]
  ELSE IF v.cls # NoClass /\ v.cls[1] \in BadIdents THEN [st EXCEPT !.threw = TRUE]
  ELSE IF byClass # Null /\ InContainer(byClass)
       THEN [st EXCEPT !.inst[h] = byClass, !.how[h] = "class1"]
  ELSE st

\* refsMap.forEach, in the order the refs were collected
RECURSIVE Phase1Loop(_, _)
Phase1Loop(st, h) ==
  IF h > N \/ st.threw THEN st
  ELSE Phase1Loop(IF h \in Handles THEN Phase1Ref(st, h) ELSE st, h + 1)

Phase1 ==
  /\ pc = "mounted"
  /\ LET st == Phase1Loop([inst |-> inst, how |-> how, threw |-> FALSE], 1)
     IN /\ inst' = st.inst
        /\ how' = st.how
        /\ pc' = IF st.threw THEN "threw" ELSE "phase1"
  /\ UNCHANGED <<tree, vinst, root, matched, walk>>
  /\ UNCHANGED <<cellVars, lifeVars, helperVars, envVars, domVars>>

----------------------------------------------------------------------------
(* Phase 2: the recursive reconcileRefs walk *)

\* BindRef without the test that the ref already points into the container.
BindRefAlways(st, v, domNode, via) ==
  LET foundById == IF tree[v].id # "" THEN QueryId(tree[v].id) ELSE Null
  IN
  IF ~tree[v].ref THEN st
  ELSE IF domNode \in st.matched THEN st
  ELSE IF tree[v].id \in BadIdents
       THEN [st EXCEPT !.inst[v] = domNode, !.matched = @ \cup {domNode},
                       !.how[v] = via, !.threw = TRUE]
  ELSE IF foundById # Null /\ foundById # domNode /\ foundById \notin st.matched
       THEN [st EXCEPT !.inst[v] = foundById,
                       !.matched = (@ \ {domNode}) \cup {foundById},
                       !.how[v] = "id2"]
       ELSE [st EXCEPT !.inst[v] = domNode, !.matched = @ \cup {domNode},
                       !.how[v] = via]

\* Step 1 of reconcileRefs: bind the VNode's ref to domNode unless the ref
\* already points into the container or domNode is already matched; then
\* prefer the element found by the VNode's id.
BindRef(st, v, domNode, via) ==
  LET foundById == IF tree[v].id # "" THEN QueryId(tree[v].id) ELSE Null
  IN
  IF ~tree[v].ref THEN st
  ELSE IF st.inst[v] # Null /\ InContainer(st.inst[v]) THEN st
  ELSE IF domNode \in st.matched THEN st
  ELSE IF tree[v].id \in BadIdents
       THEN [st EXCEPT !.inst[v] = domNode, !.matched = @ \cup {domNode},
                       !.how[v] = via, !.threw = TRUE]
  ELSE IF foundById # Null /\ foundById # domNode /\ foundById \notin st.matched
       THEN [st EXCEPT !.inst[v] = foundById,
                       !.matched = (@ \ {domNode}) \cup {foundById},
                       !.how[v] = "id2"]
       ELSE [st EXCEPT !.inst[v] = domNode, !.matched = @ \cup {domNode},
                       !.how[v] = via]

\* Strategies 1 to 3 for one child VNode c of the element domNode; the value
\* is the matched element, its index among the element children (0: none)
\* and the strategy that found it ("threw": a query threw).
MatchChild(st, c, domNode, domElementChildren, domElementIndex) ==
  LET v == tree[c]
      none == [dom |-> Null, index |-> 0, via |-> "none"]
      \* Strategy 1: the next element child, if its tag matches
      s1 == IF /\ domElementIndex <= Len(domElementChildren)
               /\ TagMatches(domElementChildren[domElementIndex], v.type)
            THEN [dom |-> domElementChildren[domElementIndex], index |-> domElementIndex,
                  via |-> "position2"]
            ELSE none
      \* Strategy 2: by id in the root container
      foundById == IF v.id # "" THEN QueryId(v.id) ELSE Null
      threw == [dom |-> Null, index |-> 0, via |-> "threw"]
      s2 == IF s1.dom # Null THEN s1
            ELSE IF v.id \in BadIdents THEN threw
            ELSE IF foundById # Null /\ Contains(domNode, foundById)
                 THEN [dom |-> foundById, index |-> IndexOf(domElementChildren, foundById),
                       via |-> "childId2"]
                 ELSE none
      \* Strategy 2.5: by data-* attributes
      foundByData == IF v.data # "" THEN QueryData(v.type, v.data) ELSE Null
      s25 == IF s2.dom # Null \/ s2.via = "threw" THEN s2
             ELSE IF /\ foundByData # Null
                     /\ Contains(domNode, foundByData)
                     /\ TagMatches(foundByData, v.type)
                     /\ foundByData \notin st.matched
                     /\ IndexOf(domElementChildren, foundByData) > 0
                  THEN [dom |-> foundByData,
                        index |-> IndexOf(domElementChildren, foundByData),
                        via |-> "data2"]
                  ELSE none
      \* Strategy 3: by the first class token, below domNode
      foundByClass ==
        IF v.cls # NoClass
        THEN First(QueryClassAll(domNode, v.type, v.cls[1]),
                   LAMBDA el : TagMatches(el, v.type) /\ el \notin st.matched)
        ELSE Null
      s3 == IF s25.dom # Null \/ s25.via = "threw" THEN s25
            ELSE IF v.cls # NoClass /\ v.cls[1] \in BadIdents THEN threw
            ELSE IF foundByClass # Null /\ IndexOf(domElementChildren, foundByClass) > 0
                 THEN [dom |-> foundByClass,
                       index |-> IndexOf(domElementChildren, foundByClass),
                       via |-> "class2"]
                 ELSE none
  IN s3

\* The record of one child match: reconcileRefs is about to be called for
\* child VNode c and element el, and the cursor goes from before to after.
Matched(st, domNode, c, el, before, after) ==
  [st EXCEPT !.walk = Append(@, [parent |-> domNode, child |-> c, dom |-> el,
                                 before |-> before, after |-> after])]

RECURSIVE ReconcileRefs(_, _, _, _), ReconcileKids(_, _, _, _, _)

\* reconcileRefs(vnode, domNode, rootContainer, matchedDomNodes)
ReconcileRefs(st, v, domNode, via) ==
  LET st1 == BindRef(st, v, domNode, via)
      st2 == IF st1.vinst[v] # Null THEN [st1 EXCEPT !.vinst[v] = domNode] ELSE st1
  IN IF st1.threw THEN st1 ELSE ReconcileKids(st2, domNode, Kids(v), 1, 1)

\* for (const childVNode of vnodeChildren): nested arrays are flattened; a raw
\* DOM node has no string type and is skipped without moving the cursor.
ReconcileKids(st, domNode, kids, k, domElementIndex) ==
  IF k > Len(kids) \/ st.threw THEN st
  ELSE IF tree[kids[k]].kind # "vnode"
       THEN ReconcileKids(st, domNode, kids, k + 1, domElementIndex)
  ELSE
    LET c == kids[k]
        domElementChildren == DomKids(domNode)
        m == MatchChild(st, c, domNode, domElementChildren, domElementIndex)
    IN
    IF m.via = "threw" THEN [st EXCEPT !.threw = TRUE]
    ELSE IF m.dom # Null /\ m.index > 0
    THEN ReconcileKids(ReconcileRefs(Matched(st, domNode, c, m.dom, domElementIndex, m.index + 1),
                                     c, m.dom, m.via),
                       domNode, kids, k + 1, m.index + 1)
    ELSE IF /\ domElementIndex <= Len(domElementChildren)
            /\ TagMatches(domElementChildren[domElementIndex], tree[c].type)
         THEN ReconcileKids(ReconcileRefs(Matched(st, domNode, c, domElementChildren[domElementIndex],
                                                  domElementIndex, domElementIndex + 1),
                                          c, domElementChildren[domElementIndex], "fallback2"),
                            domNode, kids, k + 1, domElementIndex + 1)
         ELSE ReconcileKids(st, domNode, kids, k + 1, domElementIndex)

\* const matchedDomNodes = new WeakSet(); reconcileRefs(vnode, element, this.container, matchedDomNodes)
\* with element = this.container.firstElementChild.
Phase2 ==
  /\ pc = "phase1"
  /\ LET st == ReconcileRefs([inst |-> inst, vinst |-> vinst, matched |-> {}, how |-> how,
                              threw |-> FALSE, walk |-> << >>], 1, root, "root2")
     IN /\ inst' = st.inst
        /\ vinst' = st.vinst
        /\ matched' = st.matched
        /\ walk' = st.walk
        /\ how' = st.how
        /\ pc' = IF st.threw THEN "threw" ELSE "done"
  /\ UNCHANGED <<tree, root>>
  /\ UNCHANGED <<cellVars, lifeVars, helperVars, envVars, domVars>>

----------------------------------------------------------------------------
(* renderComponent: the post-mount hook and the return *)

\* The invocation component.onAfterRender(vnode): vnode is what
\* component.render() returned, the root of the tree.
AfterRenderCall == [hook |-> "onAfterRender", vnode |-> 1]

\* The same hook invoked a second time.
AfterRenderTwice ==
  /\ pc = "done"
  /\ pc' = "returned"
  /\ hooks' = IF component.onAfterRender
                THEN hooks \o <<AfterRenderCall, AfterRenderCall>> ELSE hooks
  /\ UNCHANGED <<tree, inst, vinst, root, matched, walk, how, component, cellVars, helperVars, envVars, domVars>>

\* if (component.onAfterRender) component.onAfterRender(vnode); return ...
AfterRender ==
  /\ pc = "done"
  /\ pc' = "returned"
  /\ hooks' = IF component.onAfterRender THEN Append(hooks, AfterRenderCall) ELSE hooks
  /\ UNCHANGED <<tree, inst, vinst, root, matched, walk, how, component, cellVars, helperVars, envVars, domVars>>

----------------------------------------------------------------------------

Next == BuildComponent \/ Mount \/ Phase1 \/ Phase2 \/ AfterRender

Spec == Init /\ [][Next]_vars

----------------------------------------------------------------------------
(* Rendering of the larger hand-built trees *)

InitDeep == \E t \in DeepTrees : Built(t)

NextDeep == Mount \/ Phase1 \/ Phase2 \/ AfterRender

SpecDeep == InitDeep /\ [][NextDeep]_vars

----------------------------------------------------------------------------
(* Rendering of trees whose VNodes declare an id or a class that is not a CSS
   identifier (an id may be any string without a space) *)

SelectorProfiles ==
  { Plain,
    [id |-> "1a", cls |-> NoClass, data |-> ""],
    [id |-> "", cls |-> <<"1a">>, data |-> ""] }

\* The children of the root: VNodes, with or without a ref, alone or in an
\* array, and raw DOM elements.
SelectorKids ==
  { Slot("vnode", t, p, r, a, 1) :
      t \in Types, p \in SelectorProfiles, r \in BOOLEAN, a \in BOOLEAN } \cup
  { Slot("raw", t, Plain, FALSE, FALSE, 1) : t \in Types }

SelectorTrees ==
  { <<r, c>> : r \in RootSlots, c \in SelectorKids } \cup
  { <<r, c1, c2>> : r \in RootSlots, c1 \in SelectorKids, c2 \in SelectorKids }

InitSelectors == \E t \in SelectorTrees : Built(t)

NextSelectors == Mount \/ Phase1 \/ Phase2 \/ AfterRender

SpecSelectors == InitSelectors /\ [][NextSelectors]_vars

----------------------------------------------------------------------------
(* Rendering of <g>{first}{middle}{last}</g>: two <circle> VNodes around a
   <span> that is a VNode or a raw DOM element *)

\* What the two <circle> VNodes are rendered with.
SiblingProfiles ==
  { Plain,
    [id |-> "a", cls |-> NoClass, data |-> ""],
    [id |-> "", cls |-> <<"y">>, data |-> ""] }

SiblingTrees ==
  { << r,
       Slot("vnode", "circle", p1, r1, FALSE, 1),
       Slot(kind, "span", Plain, FALSE, FALSE, 1),
       Slot("vnode", "circle", p3, r3, FALSE, 1) >> :
      r \in RootSlots, p1 \in SiblingProfiles, r1 \in BOOLEAN,
      kind \in {"vnode", "node"}, p3 \in SiblingProfiles, r3 \in BOOLEAN }

InitSiblings == \E t \in SiblingTrees : Built(t)

NextSiblings == Mount \/ Phase1 \/ Phase2 \/ AfterRender

SpecSiblings == InitSiblings /\ [][NextSiblings]_vars

----------------------------------------------------------------------------
(* Subject: the reactive value cell *)

\* Largest number of entries of the subscribers array.
MaxSubs == 3

\* The values a Subject is given.
Values == {0, 1}

Behaviour(cb) ==
  IF cb = "once" THEN "destroys"
  ELSE IF cb = "bad" THEN "throws"
  ELSE IF cb = "clamp" THEN "resets" ELSE "returns"

\* Array.prototype.splice(index, 1), index counted from 1.
Splice(seq, i) == [k \in 1..(Len(seq) - 1) |-> IF k < i THEN seq[k] ELSE seq[k + 1]]

\* The body of the handle's destroy: the first entry equal to the callback
\* is removed, if there is one.
Unsubscribe(subs, cb) ==
  IF IndexOf(subs, cb) > 0 THEN Splice(subs, IndexOf(subs, cb)) ELSE subs

\* subscribers.forEach(sub => sub(value)): the index runs up to the length
\* the array had when the loop began and reads the array as it is now; an
\* index past the present end is skipped; a callback that throws ends the
\* loop and the exception leaves set. A callback that calls set(0) runs that
\* whole set, assignment and forEach, before the loop goes on.
RECURSIVE ForEach(_, _, _, _)
ForEach(st, i, len0, v) ==
  IF i > len0 \/ st.threw THEN st
  ELSE IF i > Len(st.subscribers) THEN ForEach(st, i + 1, len0, v)
  ELSE LET cb == st.subscribers[i]
           st1 == [st EXCEPT !.calls = Append(@, <<cb, v>>)]
       IN  IF Behaviour(cb) = "throws" THEN [st1 EXCEPT !.threw = TRUE]
           ELSE IF Behaviour(cb) = "destroys"
             THEN ForEach([st1 EXCEPT !.subscribers = Unsubscribe(@, cb)], i + 1, len0, v)
           ELSE IF Behaviour(cb) = "resets" /\ v # 0
             THEN ForEach(ForEach([st1 EXCEPT !.value = 0], 1, Len(st1.subscribers), 0),
                          i + 1, len0, v)
             ELSE ForEach(st1, i + 1, len0, v)

\* How often a callback occurs in a log of invocations.
Invocations(log, cb) == Cardinality({ j \in 1..Len(log) : log[j][1] = cb })

\* new Subject(initialValue), on its own: no component is being rendered.
NoRender ==
  /\ tree = << >>
  /\ pc = "none"
  /\ inst = << >>
  /\ vinst = << >>
  /\ root = Null
  /\ matched = {}
  /\ walk = << >>
  /\ how = << >>
  /\ component = [onAfterRender |-> FALSE]
  /\ hooks = << >>
  /\ NoHelper
  /\ NoDom

InitSubject ==
  /\ NoRender
  /\ NoEnv
  /\ \E v0 \in Values : cell = [value |-> v0, subscribers |-> << >>]
  /\ calls = << >>
  /\ op = [name |-> "create"]
  /\ handles = NoHandles

\* The number of handles that sub has returned and that are not destroyed.
LiveHandles ==
  handles["f"].live + handles["g"].live + handles["once"].live
    + handles["bad"].live + handles["clamp"].live

\* The body of Subject.set(v).
SetValue(v) ==
  LET st == ForEach([value |-> v, subscribers |-> cell.subscribers, calls |-> << >>,
                     threw |-> FALSE], 1, Len(cell.subscribers), v)
      n == Invocations(st.calls, "once")
  IN  /\ cell' = [value |-> st.value, subscribers |-> st.subscribers]
      /\ calls' = st.calls
      /\ op' = [name |-> "set", value |-> v, before |-> cell.subscribers,
                threw |-> st.threw]
      /\ handles' = IF n = 0 THEN handles
                    ELSE [handles EXCEPT !["once"] =
                            [live |-> IF @.live > n THEN @.live - n ELSE 0, dead |-> TRUE]]

\* Subject.set(value)
SubjectSet ==
  /\ \E v \in Values : SetValue(v)
  /\ UNCHANGED <<renderVars, helperVars, envVars, domVars>>

\* Subject.sub(callback, immediate). The handle does not exist yet while the
\* immediate invocation runs, so the callback cannot destroy it there.
SubjectSub ==
  /\ Len(cell.subscribers) < MaxSubs
  /\ \E cb \in Callbacks, immediate \in BOOLEAN :
       /\ LiveHandles < MaxSubs
       /\ cell' = [cell EXCEPT !.subscribers = Append(@, cb)]
       /\ calls' = IF immediate THEN << <<cb, cell.value>> >> ELSE << >>
       /\ op' = [name |-> "sub", callback |-> cb, immediate |-> immediate,
                 value |-> cell.value,
                 threw |-> (immediate /\ Behaviour(cb) = "throws")]
       /\ handles' = [handles EXCEPT ![cb].live = @ + 1]
       /\ UNCHANGED <<renderVars, helperVars, envVars, domVars>>

\* destroy() of a handle that sub returned for the callback: of one not yet
\* destroyed, or once more of one destroyed before. What the code does is
\* the same for both.
SubjectDestroy ==
  \E cb \in AllCallbacks, again \in BOOLEAN :
    /\ IF again THEN handles[cb].dead ELSE handles[cb].live > 0
    /\ cell' = [cell EXCEPT !.subscribers = Unsubscribe(@, cb)]
    /\ calls' = << >>
    /\ op' = [name |-> "destroy", callback |-> cb]
    /\ handles' = IF again THEN handles
                  ELSE [handles EXCEPT ![cb] = [live |-> @.live - 1, dead |-> TRUE]]
    /\ UNCHANGED <<renderVars, helperVars, envVars, domVars>>

NextSubject == SubjectSet \/ SubjectSub \/ SubjectDestroy

SpecSubject == InitSubject /\ [][NextSubject]_vars

\* sub of the callback that calls set on the same Subject.
SubClamp ==
  /\ Len(cell.subscribers) < MaxSubs
  /\ LiveHandles < MaxSubs
  /\ cell' = [cell EXCEPT !.subscribers = Append(@, "clamp")]
  /\ calls' = << >>
  /\ op' = [name |-> "sub", callback |-> "clamp", immediate |-> FALSE,
            value |-> cell.value, threw |-> FALSE]
  /\ handles' = [handles EXCEPT !["clamp"].live = @ + 1]
  /\ UNCHANGED <<renderVars, helperVars, envVars, domVars>>

NextReentrant == SubjectSet \/ SubjectSub \/ SubjectDestroy \/ SubClamp

SpecReentrant == InitSubject /\ [][NextReentrant]_vars

----------------------------------------------------------------------------
(* renderComponent of a component whose render() builds <div>{children}</div>,
   the children being intrinsic elements and component types *)

\* Largest number of children of the <div>.
MaxKids == 2

\* A class handed to renderComponent or to buildComponent: what its
\* constructor and its render method do, and the hooks it has.
Classes ==
  [ctor : {"returns", "throws"}, render : {"node", "null"},
   onBeforeRender : BOOLEAN, onAfterRender : BOOLEAN]

\* A child of the <div>: <span/>, or <Child/> of a class, with or without a
\* ref in its props.
KidItems ==
  {[kind |-> "vnode", type |-> "span"]} \cup
  [kind : {"component"}, class : Classes, ref : BOOLEAN]

\* The n-th instance constructed for the component type that is child k
\* (child 0: the component renderComponent constructs). Component instances
\* are numbered below zero, DOM nodes above.
ComponentInstance(k, n) == 0 - (10 * k + n)

IsComponentInstance(x, k) == \E n \in 1..3 : x = ComponentInstance(k, n)

\* The <div> element; the element built for child k is k.
DivNode == MaxKids + 1

InitBuild ==
  /\ \E n \in 1..MaxKids : tree \in [1..n -> KidItems]
  /\ component \in Classes
  /\ pc = "new"
  /\ inst = << >>
  /\ vinst = << >>
  /\ root = Null
  /\ matched = {}
  /\ walk = << >>
  /\ how = << >>
  /\ hooks = << >>
  /\ NoCell
  /\ NoHelper
  /\ NoDom
  /\ NoEnv

\* const component = new ComponentClass(props)
Construct ==
  /\ pc = "new"
  /\ hooks' = Append(hooks, [hook |-> "constructor", of |-> 0, result |-> component.ctor])
  /\ pc' = IF component.ctor = "throws" THEN "threw" ELSE "before"
  /\ UNCHANGED <<tree, inst, vinst, root, matched, walk, how, component, cellVars, helperVars, envVars, domVars>>

\* if (component.onBeforeRender) component.onBeforeRender()
BeforeRender ==
  /\ pc = "before"
  /\ hooks' = IF component.onBeforeRender
                THEN Append(hooks, [hook |-> "onBeforeRender", of |-> 0]) ELSE hooks
  /\ pc' = "render0"
  /\ UNCHANGED <<tree, inst, vinst, root, matched, walk, how, component, cellVars, helperVars, envVars, domVars>>

\* component.render() is entered; a render that returns no node makes
\* renderComponent throw 'Component render() returned null'.
RenderRoot ==
  /\ pc = "render0"
  /\ hooks' = Append(hooks, [hook |-> "render", of |-> 0, result |-> component.render])
  /\ pc' = IF component.render = "null" THEN "threw" ELSE "jsx"
  /\ UNCHANGED <<tree, inst, vinst, root, matched, walk, how, component, cellVars, helperVars, envVars, domVars>>

\* The log of buildComponent(type, props) for a component type that is child
\* k, constructing its n-th instance: new type(props), then component.render().
TypeCalls(k, n) ==
  << [hook |-> "constructor", of |-> k, result |-> tree[k].class.ctor],
     [hook |-> "render", of |-> k, result |-> tree[k].class.render] >>

\* FSComponent.buildComponent for the next child of the <div>, evaluated
\* before the <div> itself. An intrinsic child gets its element; a component
\* type is constructed, its ref is set to the instance, and the result is
\* what its render() returned or, if that is nothing, a VNode of the
\* component type with instance null.
BuildChild ==
  /\ pc = "jsx"
  /\ Len(vinst) < Len(tree)
  /\ LET k == Len(vinst) + 1
         c == tree[k]
     IN  IF c.kind = "vnode"
           THEN /\ vinst' = Append(vinst, k)
                /\ inst' = Append(inst, Null)
                /\ UNCHANGED <<pc, hooks>>
         ELSE IF c.class.ctor = "throws"
           THEN /\ hooks' = Append(hooks, TypeCalls(k, 1)[1])
                /\ pc' = "threw"
                /\ UNCHANGED <<inst, vinst>>
         ELSE   /\ hooks' = hooks \o TypeCalls(k, 1)
                /\ inst' = Append(inst, IF c.ref THEN ComponentInstance(k, 1) ELSE Null)
                /\ vinst' = Append(vinst, IF c.class.render = "node" THEN k ELSE Null)
                /\ UNCHANGED pc
  /\ UNCHANGED <<tree, root, matched, walk, how, component, cellVars, helperVars, envVars, domVars>>

\* A child of the <div> that is still a VNode of a component type: its
\* render() returned nothing.
Unrendered(k) == tree[k].kind = "component" /\ tree[k].class.render = "null"

\* processChildren of the <div>: a child with an element is appended; a child
\* that is a VNode of a component type without one is built again, and the
\* result, again such a VNode, a third time; nothing is appended for it.
RECURSIVE ProcessChildren(_, _)
ProcessChildren(st, k) ==
  IF k > Len(tree) THEN st
  ELSE IF Unrendered(k)
    THEN ProcessChildren(
           [inst |-> IF tree[k].ref
                       THEN [st.inst EXCEPT ![k] = ComponentInstance(k, 3)] ELSE st.inst,
            hooks |-> st.hooks \o TypeCalls(k, 2) \o TypeCalls(k, 3)], k + 1)
    ELSE ProcessChildren(st, k + 1)

\* buildComponent('div', props, ...children), and render() returns its VNode.
BuildDiv ==
  /\ pc = "jsx"
  /\ Len(vinst) = Len(tree)
  /\ LET st == ProcessChildren([inst |-> inst, hooks |-> hooks], 1)
     IN  /\ inst' = st.inst
         /\ hooks' = st.hooks
  /\ pc' = "built"
  /\ UNCHANGED <<tree, vinst, root, matched, walk, how, component, cellVars, helperVars, envVars, domVars>>

\* The element children of the <div>, as built.
DivKids == SelectSeq([k \in 1..Len(tree) |-> k], LAMBDA k : ~Unrendered(k))

\* reestablishRefs on the children of the <div>: every child VNode with a
\* type takes the next element child, and a ref in its props follows.
RECURSIVE ReestablishDiv(_, _, _, _)
ReestablishDiv(st, k, domChildren, domIndex) ==
  IF k > Len(tree) \/ domIndex > Len(domChildren) THEN st
  ELSE ReestablishDiv(
         [inst |-> IF Unrendered(k) /\ tree[k].ref
                     THEN [st.inst EXCEPT ![k] = domChildren[domIndex]] ELSE st.inst,
          vinst |-> [st.vinst EXCEPT ![k] = domChildren[domIndex]]],
         k + 1, domChildren, domIndex + 1)

\* FSComponent.render(vnode, this.container) and the element lookup.
MountDiv ==
  /\ pc = "built"
  /\ \E mode \in MountModes :
       LET rootNode == RecreateNodeInDocument(DivNode, mode)
           domChildren == [i \in 1..Len(DivKids) |-> RecreateNodeInDocument(DivKids[i], mode)]
           st == ReestablishDiv([inst |-> inst, vinst |-> vinst], 1, domChildren, 1)
       IN  /\ root' = rootNode
           /\ inst' = st.inst
           /\ vinst' = st.vinst
  /\ pc' = "mountedDiv"
  /\ UNCHANGED <<tree, matched, walk, how, component, hooks, cellVars, helperVars, envVars, domVars>>

\* Phase 1 and Phase 2 on this tree. The only refs collected are those of
\* the VNodes of a component type: Phase 1 accepts one that holds an element
\* of the container and finds no id, data-* or class prop to match the
\* others by; the Phase 2 walk only descends into children whose type is a
\* string: each is a <span> and takes, by position and tag, its own element
\* of the container as vnode.instance. No ref is bound, so the matched set
\* stays empty.
ReconcileDiv ==
  /\ pc = "mountedDiv"
  /\ vinst' = [k \in 1..Len(tree) |->
                IF Unrendered(k) THEN vinst[k] ELSE k + GenOff(root)]
  /\ pc' = "done"
  /\ UNCHANGED <<tree, inst, root, matched, walk, how, component, hooks, cellVars, helperVars, envVars, domVars>>

NextBuild ==
  \/ Construct \/ BeforeRender \/ RenderRoot \/ BuildChild \/ BuildDiv
  \/ MountDiv \/ ReconcileDiv \/ AfterRender

SpecBuild == InitBuild /\ [][NextBuild]_vars

----------------------------------------------------------------------------
(* ComponentTestHelper: renderComponent calls on one helper, for components
   that render a single element *)

\* Largest number of renderComponent calls on one helper.
MaxCalls == 3

\* new ComponentTestHelper(env): a new <div> appended to the document body.
NewHelper ==
  /\ container' = [children |-> << >>, attached |-> TRUE]
  /\ element' = Null
  /\ tree' = << >>
  /\ inst' = << >>
  /\ vinst' = << >>
  /\ root' = Null
  /\ pc' = "idle"
  /\ UNCHANGED <<matched, walk, how, component, hooks, style, cellVars, envVars, domVars>>

InitHelper ==
  /\ tree = << >>
  /\ pc = "idle"
  /\ inst = << >>
  /\ vinst = << >>
  /\ root = Null
  /\ matched = {}
  /\ walk = << >>
  /\ how = << >>
  /\ component = [onAfterRender |-> FALSE]
  /\ hooks = << >>
  /\ NoCell
  /\ NoHelper
  /\ NoDom
  /\ NoEnv

\* The single element such a component renders: any tag, id, class and
\* data-* props, with or without a ref.
SingleRoots ==
  { Slot("vnode", t, p, r, FALSE, 0) : t \in {"g", "span"}, p \in Profiles, r \in BOOLEAN }

\* One renderComponent call for a component that renders the single element r.
\* The element built by the n-th call on the helper is n. FSComponent.render
\* appends the mounted node to the container, after what the container
\* holds already, and reestablishRefs binds the root ref and vnode.instance
\* to it; the element the helper works with and returns is
\* container.firstElementChild; Phase 1 accepts the root ref, which is
\* inside the container; reconcileRefs(vnode, element, container) keeps it
\* for the same reason and sets vnode.instance to the element.
RenderComponent ==
  /\ Len(container.children) < MaxCalls
  /\ \E r \in SingleRoots, mode \in MountModes :
       LET n == Len(container.children) + 1
           rootNode == RecreateNodeInDocument(n, mode)
           children == Append(container.children, rootNode)
       IN  /\ tree' = <<r>>
           /\ container' = [container EXCEPT !.children = children]
           /\ root' = rootNode
           /\ element' = children[1]
           /\ inst' = <<IF r.ref THEN rootNode ELSE Null>>
           /\ vinst' = <<children[1]>>
  /\ pc' = "returned"
  /\ UNCHANGED <<matched, walk, how, component, hooks, style, cellVars, envVars, domVars>>

\* cleanup(): the container leaves the document body and keeps its children.
Cleanup ==
  /\ container.attached
  /\ container' = [container EXCEPT !.attached = FALSE]
  /\ UNCHANGED <<renderVars, element, style, cellVars, envVars, domVars>>

NextHelper == NewHelper \/ RenderComponent \/ Cleanup

SpecHelper == InitHelper /\ [][NextHelper]_vars

----------------------------------------------------------------------------
(* A style property bound to a Subject: <div style={{ opacity: cell }}/> *)

\* String(v) of a number.
String(v) == ToString(v)

\* The element buildComponent creates for the <div>.
StyleNode == 1

InitStyle ==
  /\ tree = << >>
  /\ pc = "build"
  /\ inst = << >>
  /\ vinst = << >>
  /\ root = Null
  /\ matched = {}
  /\ walk = << >>
  /\ how = << >>
  /\ component = [onAfterRender |-> FALSE]
  /\ hooks = << >>
  /\ \E v0 \in Values : cell = [value |-> v0, subscribers |-> << >>]
  /\ calls = << >>
  /\ op = [name |-> "create"]
  /\ handles = NoHandles
  /\ NoHelper
  /\ NoDom
  /\ NoEnv

\* buildComponent for the element: element.style[styleKey] =
\* String(styleVal.get()), then styleVal.sub of a callback that assigns
\* String(v) to the style of this same element.
BuildStyle ==
  /\ pc = "build"
  /\ Len(cell.subscribers) < MaxSubs
  /\ style' = (StyleNode :> String(cell.value))
  /\ cell' = [cell EXCEPT !.subscribers = Append(@, "style")]
  /\ calls' = << >>
  /\ op' = [name |-> "sub", callback |-> "style", immediate |-> FALSE,
            value |-> cell.value, threw |-> FALSE]
  /\ UNCHANGED handles
  /\ vinst' = <<StyleNode>>
  /\ pc' = "built"
  /\ UNCHANGED <<tree, inst, root, matched, walk, how, component, hooks, container, element, envVars, domVars>>

\* FSComponent.render: the element is mounted as it is, or recreated with
\* its attributes, the style attribute among them, copied.
MountStyle ==
  /\ pc = "built"
  /\ \E mode \in MountModes :
       LET rootNode == RecreateNodeInDocument(StyleNode, mode)
       IN  /\ root' = rootNode
           /\ vinst' = <<rootNode>>
           /\ container' = [container EXCEPT !.children = <<rootNode>>]
           /\ element' = rootNode
           /\ style' = IF rootNode = StyleNode THEN style
                       ELSE style @@ (rootNode :> style[StyleNode])
  /\ pc' = "styled"
  /\ UNCHANGED <<tree, inst, matched, walk, how, component, hooks, cellVars, envVars, domVars>>

\* The style the callbacks of one set call leave on the built element: each
\* invocation of the style callback assigns String(v).
Styled(log, before) ==
  IF \E j \in 1..Len(log) : log[j][1] = "style"
    THEN [before EXCEPT ![StyleNode] = String(log[CHOOSE j \in 1..Len(log) : log[j][1] = "style"][2])]
    ELSE before

\* cell.set(v) once the element is mounted.
SetStyle ==
  /\ pc = "styled"
  /\ \E v \in Values : SetValue(v)
  /\ style' = Styled(calls', style)
  /\ UNCHANGED <<renderVars, container, element, envVars, domVars>>

\* Test code subscribes a callback of its own to the cell.
SubStyle ==
  /\ pc \in {"build", "styled"}
  /\ SubjectSub

NextStyle == BuildStyle \/ MountStyle \/ SetStyle \/ SubStyle

SpecStyle == InitStyle /\ [][NextStyle]_vars

----------------------------------------------------------------------------
(* Data props: <circle dataRange={25}/> and <span data-range={25}/>, built,
   mounted and looked up by their data attribute *)

\* A prop key or an attribute name is the sequence of its characters.
DataRangeProps == [camel |-> <<"d", "a", "t", "a", "R", "a", "n", "g", "e">>,
                   kebab |-> <<"d", "a", "t", "a", "-", "r", "a", "n", "g", "e">>]

DataXProps == [camel |-> <<"d", "a", "t", "a", "X">>,
               kebab |-> <<"d", "a", "t", "a", "-", "x">>]

\* The data props of the rendered elements, each in its two spellings.
DataProps == {DataRangeProps, DataXProps}

DataValues == {"25", "50", "75"}

DataTypes == {"circle", "g", "span", "div"}

UpperCase == {"R", "X"}

toLowerCase == [c \in UpperCase |-> IF c = "R" THEN "r" ELSE "x"]

\* s.replace(/([A-Z])/g, '-$1').toLowerCase()
RECURSIVE Hyphenate(_)
Hyphenate(s) ==
  IF s = << >> THEN << >>
  ELSE (IF Head(s) \in UpperCase THEN <<"-", toLowerCase[Head(s)]>> ELSE <<Head(s)>>)
       \o Hyphenate(Tail(s))

startsWith(s, prefix) == Len(s) >= Len(prefix) /\ SubSeq(s, 1, Len(prefix)) = prefix

Data == <<"d", "a", "t", "a">>

\* What buildComponent does with prop key = value on a new element of a
\* type. An SVG element gets the attribute named by the hyphenated key (no
\* data key is in svgAttrMap). An HTML element gets the attribute only for a
\* key that starts with 'data-'; any other key is assigned as a property of
\* the element object.
ApplyProp(type, key, value) ==
  IF type \in SvgTags
    THEN [attributes |-> {<<Hyphenate(key), value>>}, properties |-> {}]
  ELSE IF startsWith(key, Data \o <<"-">>)
    THEN [attributes |-> {<<key, value>>}, properties |-> {}]
  ELSE [attributes |-> {}, properties |-> {<<key, value>>}]

\* The attribute name Strategy 1.5 and Strategy 2.5 put into the selector for
\* a data prop key: a camelCase key becomes 'data-' followed by the
\* hyphenated rest, and the result is hyphenated once more.
SelectorAttr(key) ==
  LET attr == IF startsWith(key, Data) /\ ~startsWith(key, Data \o <<"-">>)
                THEN Data \o <<"-">> \o Hyphenate(SubSeq(key, 5, Len(key)))
                ELSE key
  IN  Hyphenate(attr)

\* One VNode with one data prop and a ref, before its JSX is evaluated.
InitData ==
  /\ \E type \in DataTypes, p \in DataProps, spelling \in {"camel", "kebab"},
        value \in DataValues :
       tree = <<[type |-> type, key |-> p[spelling], value |-> value]>>
  /\ pc = "jsx"
  /\ inst = <<Null>>
  /\ vinst = <<Null>>
  /\ root = Null
  /\ matched = {}
  /\ walk = << >>
  /\ how = <<"none">>
  /\ component = [onAfterRender |-> FALSE]
  /\ hooks = << >>
  /\ NoCell
  /\ NoHelper
  /\ NoDom
  /\ NoEnv

\* FSComponent.buildComponent(type, { [key]: value, ref }): element 1 is
\* created, the prop applied, the ref bound.
BuildData ==
  /\ pc = "jsx"
  /\ dom' = <<ApplyProp(tree[1].type, tree[1].key, tree[1].value)>>
  /\ inst' = <<1>>
  /\ vinst' = <<1>>
  /\ how' = <<"build">>
  /\ pc' = "render"
  /\ UNCHANGED <<tree, root, matched, walk, component, hooks, selector>>
  /\ UNCHANGED <<cellVars, helperVars, envVars>>

\* FSComponent.render: the element is appended to the container as it is or
\* recreated there; a recreated element gets the attributes of the original
\* and none of its properties. reestablishRefs binds the ref to the mounted
\* element.
MountData ==
  /\ pc = "render"
  /\ \E mode \in MountModes :
       /\ root' = IF mode = "recreate" THEN 2 ELSE 1
       /\ dom' = IF mode = "recreate"
                   THEN Append(dom, [attributes |-> dom[1].attributes, properties |-> {}])
                   ELSE dom
  /\ inst' = <<root'>>
  /\ vinst' = <<root'>>
  /\ how' = <<"mount">>
  /\ pc' = "mounted"
  /\ UNCHANGED <<tree, matched, walk, component, hooks, selector>>
  /\ UNCHANGED <<cellVars, helperVars, envVars>>

\* The data attribute lookup of reconciliation for the VNode:
\* container.querySelector(`${type}[${attr}="${value}"]`).
LookupData ==
  /\ pc = "mounted"
  /\ LET attr == SelectorAttr(tree[1].key)
     IN  selector' = [attr |-> attr,
                      found |-> IF <<attr, tree[1].value>> \in dom[root].attributes
                                  THEN root ELSE Null]
  /\ pc' = "queried"
  /\ UNCHANGED <<tree, inst, vinst, root, matched, walk, how, component, hooks, dom>>
  /\ UNCHANGED <<cellVars, helperVars, envVars>>

NextData == BuildData \/ MountData \/ LookupData

SpecData == InitData /\ [][NextData]_vars

----------------------------------------------------------------------------
(* TestEnvironment, the SimVar, simvar and Coherent globals it installs, and
   FSComponent.render's handling of the global document. *)

\* Calls made on one environment.
MaxSteps == 3

\* A jsdom document is the number of the setup() call that created it; 0 is
\* no document.
Connected == [method \in Methods |-> "connected"]

\* The state setup() leaves behind when it is the first call made.
SetUp ==
  /\ coherentMock = [NewCoherentMock EXCEPT !.callHandlers = Connected]
  /\ document = 1
  /\ env = [dom |-> 1, originalDocument |-> 0, doms |-> 1, globals |-> TRUE]
  /\ did = [n |-> 0, name |-> "setup", prev |-> "none", reset |-> FALSE]

\* A test starts before setup() or after it. The access log it finds is the
\* one construction wrote, or one that earlier setSimVarValue calls on the
\* default variables have filled to one entry below its limit.
InitEnv ==
  /\ NoRender
  /\ NoCell
  /\ \/ NoEnv
     \/ /\ SetUp
        /\ \E h \in {Defaults, maxLogSize - 1} :
             simVarMock = [NewSimVarMock EXCEPT !.accessLog.head = h]

\* The record of a call: how many calls so far, its name, the name of the
\* call before it, and whether reset() has been called since setup().
Did(name, reset) == [n |-> did.n + 1, name |-> name, prev |-> did.name, reset |-> reset]

\* TestEnvironment.setup(): a new jsdom becomes the global document, and
\* setupCoherentMock connects the three setValueReg handlers to the SimVar mock.
EnvSetup ==
  /\ did.n < MaxSteps
  /\ env' = [dom |-> env.doms + 1, originalDocument |-> document,
             doms |-> env.doms + 1, globals |-> TRUE]
  /\ document' = env.doms + 1
  /\ coherentMock' = [coherentMock EXCEPT !.callHandlers = Connected]
  /\ did' = Did("setup", FALSE)
  /\ UNCHANGED <<simVarMock, renderVars, cellVars, helperVars, domVars>>

\* TestEnvironment.teardown()
EnvTeardown ==
  /\ did.n < MaxSteps
  /\ simVarMock' = NewSimVarMock
  /\ coherentMock' = NewCoherentMock
  /\ document' = IF env.originalDocument # 0 THEN env.originalDocument ELSE document
  /\ env' = [env EXCEPT !.dom = 0]
  /\ did' = Did("teardown", FALSE)
  /\ UNCHANGED <<renderVars, cellVars, helperVars, domVars>>

\* TestEnvironment.reset(): simVarMock.reset(); coherentMock.reset(), which
\* clears callHandlers and registers the default handlers again.
EnvReset ==
  /\ did.n < MaxSteps
  /\ simVarMock' = NewSimVarMock
  /\ coherentMock' = NewCoherentMock
  /\ did' = Did("reset", env.dom # 0)
  /\ UNCHANGED <<document, env, renderVars, cellVars, helperVars, domVars>>

\* env.setSimVar(name, unit, value)
EnvSetSimVar ==
  /\ did.n < MaxSteps
  /\ \E name \in Names, unit \in Units, value \in {"7", "true"}, ds \in DataSources :
       /\ simVarMock' = setSimVarValue(simVarMock, name, unit, value, ds)
       /\ did' = [Did("setSimVar", did.reset) EXCEPT !.name = "setSimVar"]
  /\ UNCHANGED <<coherentMock, document, env, renderVars, cellVars, helperVars, domVars>>

\* SimVar.GetSimVarValue(name, unit)
GetSimVarValue ==
  /\ did.n < MaxSteps
  /\ env.globals
  /\ \E name \in Names, unit \in Units, ds \in DataSources :
       /\ simVarMock' = getSimVarValue(simVarMock, name, unit, ds)
       /\ did' = [n |-> did.n + 1, name |-> "GetSimVarValue", prev |-> did.name,
                  reset |-> did.reset,
                  result |-> SimVarValueOf(simVarMock, name, unit, ds)]
  /\ UNCHANGED <<coherentMock, document, env, renderVars, cellVars, helperVars, domVars>>

\* SimVar.GetRegisteredId(name, unit)
GetRegisteredId ==
  /\ did.n < MaxSteps
  /\ env.globals
  /\ \E name \in Names, unit \in Units, ds \in DataSources :
       /\ simVarMock' = getRegisteredId(simVarMock, name, unit, ds)
       /\ did' = [n |-> did.n + 1, name |-> "GetRegisteredId", prev |-> did.name,
                  reset |-> did.reset,
                  result |-> RegisteredSimVar(simVarMock', getKey(name, unit, ds))]
  /\ UNCHANGED <<coherentMock, document, env, renderVars, cellVars, helperVars, domVars>>

\* The ids a test holds: the first two GetRegisteredId can return.
Ids == {0, 1}

\* simvar.getValueReg(id)
GetValueReg ==
  /\ did.n < MaxSteps
  /\ env.globals
  /\ \E id \in Ids :
       did' = [n |-> did.n + 1, name |-> "getValueReg", prev |-> did.name,
               reset |-> did.reset, id |-> id, result |-> getValueReg(simVarMock, id)]
  /\ UNCHANGED <<simVarMock, coherentMock, document, env, renderVars, cellVars, helperVars, domVars>>

\* The values a test passes to each Coherent method.
MethodValues ==
  [method \in Methods |->
     CASE method = "setValueReg_Number" -> {"0", "7"}
       [] method = "setValueReg_String" -> {"'7'"}
       [] OTHER -> {"true", "false"}]

\* What the handler setupCoherentMock registers for a method does to the
\* SimVar mock; the Bool handler passes value ? 1 : 0.
Handle(m, method, id, value) ==
  IF method = "setValueReg_Bool" THEN setValueReg(m, id, Truthy[value])
  ELSE setValueReg(m, id, value)

\* callHistory.push(call), cut to the last maxHistorySize calls
PushCall(history, call) ==
  LET pushed == Append(history, call)
  IN  IF Len(pushed) > maxHistorySize
        THEN SubSeq(pushed, Len(pushed) - maxHistorySize + 1, Len(pushed))
        ELSE pushed

\* Coherent.call(method, id, value): coherentMock.call records the call and
\* runs the handler registered for the method.
CoherentCall ==
  /\ did.n < MaxSteps
  /\ env.globals
  /\ \E method \in Methods, id \in Ids :
       \E value \in MethodValues[method] :
         /\ coherentMock' = [coherentMock EXCEPT !.callHistory =
                               PushCall(@, <<method, id, value>>)]
         /\ simVarMock' = IF coherentMock.callHandlers[method] = "connected"
                            THEN Handle(simVarMock, method, id, value)
                            ELSE simVarMock
         /\ did' = [n |-> did.n + 1, name |-> "call", prev |-> did.name,
                    reset |-> did.reset, method |-> method, id |-> id, value |-> value]
  /\ UNCHANGED <<document, env, renderVars, cellVars, helperVars, domVars>>

\* env.clearSimVarAccessLog()
ClearSimVarAccessLog ==
  /\ did.n < MaxSteps
  /\ simVarMock' = [simVarMock EXCEPT !.accessLog = [head |-> 0, tail |-> << >>]]
  /\ did' = Did("clearSimVarAccessLog", did.reset)
  /\ UNCHANGED <<coherentMock, document, env, renderVars, cellVars, helperVars, domVars>>

\* What FSComponent.render is handed: nothing; a VNode whose instance is the
\* element buildComponent created; or a VNode of a component class with no
\* instance, as buildComponent returns for a class whose render() returned
\* nothing.
RenderInputs ==
  {[kind |-> "null"], [kind |-> "element"]} \cup
  [kind : {"component"}, ctor : {"returns", "throws"}, render : {"node", "null"}]

\* How renderVNode ends. A VNode with an element is recreated and appended. A
\* VNode of a class is built again: the constructor runs and may throw; a
\* render() that returns a node ends the build; one that returns nothing
\* yields the same kind of VNode, which renderVNode passes to itself without
\* end until the call stack overflows.
RenderVNode(vnode) ==
  CASE vnode.kind = "element" -> "returns"
    [] vnode.ctor = "throws" -> "throws"
    [] vnode.render = "node" -> "returns"
    [] OTHER -> "throws"

\* The global document when a render call whose body ended with outcome ends:
\* the assignment after the body is reached only by a body that returns.
DocumentAfter(outcome, originalDoc, targetDoc) ==
  IF outcome = "returns" THEN originalDoc ELSE targetDoc

\* FSComponent.render(vnode, container), for a container of any jsdom created
\* so far.
Render ==
  /\ did.n < MaxSteps
  /\ \E vnode \in RenderInputs, targetDoc \in 1..env.doms :
       LET outcome == IF vnode.kind = "null" THEN "returns" ELSE RenderVNode(vnode)
       IN  /\ document' = IF vnode.kind = "null" THEN document
                          ELSE DocumentAfter(outcome, document, targetDoc)
           /\ did' = [n |-> did.n + 1, name |-> "render", prev |-> did.name,
                      reset |-> did.reset, vnode |-> vnode.kind, outcome |-> outcome,
                      originalDoc |-> document, targetDoc |-> targetDoc]
  /\ UNCHANGED <<simVarMock, coherentMock, env, renderVars, cellVars, helperVars, domVars>>

NextEnv ==
  \/ EnvSetup \/ EnvTeardown \/ EnvReset \/ EnvSetSimVar \/ GetSimVarValue
  \/ GetRegisteredId \/ GetValueReg \/ CoherentCall \/ ClearSimVarAccessLog \/ Render

SpecEnv == InitEnv /\ [][NextEnv]_vars


----------------------------------------------------------------------------
(* Properties of renderComponent *)

\* The element of the container that was rendered for slot s.
Own(s) == s + GenOff(root)

\* The strategies of Phase 1 and of the Phase 2 walk that assign a ref.
Phase1Ways == {"id1", "data1", "class1"}

Phase2Ways == {"root2", "position2", "childId2", "data2", "class2", "fallback2", "id2"}

\* C1: after renderComponent, no two distinct handles hold the same DOM node.
C1_NoSharedNode ==
  pc = "done" =>
    \A h1, h2 \in Handles : (h1 # h2 /\ inst[h1] # Null) => inst[h1] # inst[h2]

DataSiblings ==
  /\ N >= 3
  /\ \A s \in 2..N : /\ tree[s].kind = "vnode" /\ tree[s].ref /\ tree[s].parent = 1
                     /\ tree[s].type = tree[2].type
                     /\ tree[s].cls = tree[2].cls /\ tree[s].cls # NoClass
                     /\ tree[s].id = "" /\ tree[s].data # ""
  /\ \A s1, s2 \in 2..N : s1 # s2 => tree[s1].data # tree[s2].data

\* C3: with same-tag, same-class siblings that each carry a distinct data-*
\* value and a handle, every handle ends on the sibling whose data-* value is
\* the one its own VNode declares.
C3_DataSiblingsOwn ==
  (pc = "done" /\ DataSiblings) =>
    \A h \in 2..N : InContainer(inst[h]) /\ tree[Orig(inst[h])].data = tree[h].data

\* C4: a handle whose VNode declares an id, where the container holds an
\* element with that id and the declared tag, ends on an element with that id
\* and tag.
C4_BoundById ==
  pc = "done" =>
    \A h \in Handles :
      (tree[h].id # "" /\ \E s \in 1..N : tree[s].id = tree[h].id /\ TagMatches(Own(s), tree[h].type))
        => /\ InContainer(inst[h])
           /\ tree[Orig(inst[h])].id = tree[h].id
           /\ TagMatches(inst[h], tree[h].type)

\* C5: a handle whose instance is inside the container when reconciliation
\* starts is changed neither by Phase 1 nor by the Phase 2 walk.
C5_FastAccept ==
  [][(pc \in {"mounted", "phase1"}) =>
       \A h \in Handles : InContainer(inst[h]) => (inst'[h] = inst[h])]_vars

\* A handle the mount left on an element of the container that is not the one
\* its id names has come through both phases, while another handle was rebound.
C5_Witness ==
  /\ pc = "done"
  /\ \E h \in Handles : /\ how[h] = "mount"
                        /\ InContainer(inst[h])
                        /\ tree[h].id # ""
                        /\ QueryId(tree[h].id) # inst[h]
                        /\ TagMatches(QueryId(tree[h].id), tree[h].type)
  /\ \E o \in Handles : how[o] \in Phase1Ways \cup Phase2Ways

\* C6: one tracking set covers Phase 1 and Phase 2: every node bound to a
\* handle in either phase is recorded in it, and a recorded node is held by
\* one handle only.
C6_OneTrackingSet ==
  pc = "done" =>
    /\ \A h \in Handles : how[h] \in Phase1Ways \cup Phase2Ways => inst[h] \in matched
    /\ \A d \in matched : Cardinality({ h \in Handles : inst[h] = d }) <= 1

\* Every reference site carries an id and no two carry the same one.
DistinctIds ==
  /\ \A h \in Handles : tree[h].id # ""
  /\ \A h1, h2 \in Handles : h1 # h2 => tree[h1].id # tree[h2].id

\* C7: when every reference site carries a distinct id, all handles end with
\* pairwise different instances.
C7_DistinctIdsDistinctNodes ==
  (pc = "done" /\ DistinctIds) =>
    \A h1, h2 \in Handles : h1 # h2 => inst[h1] # inst[h2]

\* Handles of one tag and one class, without id and without data-* attribute.
ClassPeers(h1, h2) ==
  /\ h1 # h2
  /\ tree[h1].type = tree[h2].type
  /\ tree[h1].cls = tree[h2].cls /\ tree[h1].cls # NoClass
  /\ tree[h1].id = "" /\ tree[h2].id = ""
  /\ tree[h1].data = "" /\ tree[h2].data = ""

\* C8: handles that declare the same tag and class and no id or data-*
\* attribute end on pairwise different elements.
C8_ClassPeersDistinct ==
  pc = "done" =>
    \A h1, h2 \in Handles : ClassPeers(h1, h2) => inst[h1] # inst[h2]

\* C9: whenever a handle is bound, after the mount and after either phase, the
\* tag name of its node equals its VNode's declared type, case-insensitively.
C9_TagAgrees ==
  pc \in {"mounted", "phase1", "done"} =>
    \A h \in Handles : inst[h] # Null => TagMatches(inst[h], tree[h].type)

\* C10: a handle bound by class matching, in Phase 1 or in the Phase 2 walk,
\* whose VNode declares more than one class token is on an element that
\* carries every declared token.
C10_EveryClassToken ==
  \A h \in Handles :
    (how[h] \in {"class1", "class2"} /\ Len(tree[h].cls) > 1)
      => \A i \in DOMAIN tree[h].cls : HasClass(inst[h], tree[h].cls[i])

\* C13: the post-mount hook of the component, if it has one, is invoked
\* exactly once, with the rendered VNode, after the mount and both phases;
\* no hook has run while renderComponent is before or inside reconciliation.
C13_AfterRenderOnceAtEnd ==
  /\ pc \in {"render", "mounted", "phase1", "done"} => hooks = << >>
  /\ pc = "returned" =>
       hooks = IF component.onAfterRender THEN <<AfterRenderCall>> ELSE << >>

\* A component with the hook has been rendered into a recreated tree and
\* renderComponent has returned.
C13_Witness ==
  /\ pc = "returned"
  /\ component.onAfterRender
  /\ hooks # << >>
  /\ root > CloneOff

\* C15: the reconciliation phases of renderComponent never end with an
\* exception, whatever id and class names the VNodes declare and whether or
\* not a handle finds a DOM node.
C15_ReconcileNeverThrows == pc # "threw"

\* C18: when FSComponent.render has returned, the instance field of every
\* VNode of the tree is the node mounted for that VNode inside the container.
C18_InstanceIsMountedNode ==
  pc = "mounted" => \A v \in VNodes : vinst[v] = Own(v)

----------------------------------------------------------------------------
(* Properties of the build of component types *)

\* A constructor has thrown or a render method has returned no node.
BuildFailed ==
  \E j \in 1..Len(hooks) :
    \/ hooks[j].hook = "constructor" /\ hooks[j].result = "throws"
    \/ hooks[j].hook = "render" /\ hooks[j].result = "null"

\* C14: once a constructor has thrown or a render method has returned no
\* node, of the root component or of a nested one, the mount attempt has
\* ended with an error and nothing of it is in the container.
C14_BuildErrorAborts == BuildFailed => (pc = "threw" /\ root = Null)

\* The component types among the children that were given a ref and built.
BuiltWithRef ==
  { k \in 1..Len(inst) : tree[k].kind = "component" /\ tree[k].ref }

\* C19: the handle given to a component type holds a component instance of
\* that type from the build on, also after mount and reconciliation.
C19_ComponentRefKept ==
  \A k \in BuiltWithRef : IsComponentInstance(inst[k], k)

\* The class of the component an entry of the log is about.
ClassOf(k) == IF k = 0 THEN component ELSE tree[k].class

\* C20: every render() of a component that has the pre-render hook, root or
\* nested, directly follows one onBeforeRender of it, which directly
\* follows its construction.
C20_BeforeRenderEveryType ==
  \A j \in 1..Len(hooks) :
    (hooks[j].hook = "render" /\ ClassOf(hooks[j].of).onBeforeRender) =>
      /\ j > 2
      /\ hooks[j - 1] = [hook |-> "onBeforeRender", of |-> hooks[j].of]
      /\ hooks[j - 2].hook = "constructor"
      /\ hooks[j - 2].of = hooks[j].of

----------------------------------------------------------------------------
(* Properties of the helper *)

\* C16: the element a renderComponent call returns and the node its root
\* handle holds are the root that this call mounted, whatever earlier calls
\* on the same helper left in the container.
C16_SelfContainedMount ==
  pc = "returned" =>
    /\ element = root
    /\ tree[1].ref => inst[1] = root

\* C17: once the element is mounted, the node inside the container has
\* the bound style property equal to String of the value of the cell, right
\* after the mount and after every set.
C17_StyleFollowsCell ==
  pc = "styled" => style[root] = String(cell.value)

----------------------------------------------------------------------------
(* Properties of the Subject *)

\* The value of the last invocation of a callback in a log.
LastDelivered(log, cb) ==
  log[CHOOSE j \in 1..Len(log) :
        log[j][1] = cb /\ \A k \in (j + 1)..Len(log) : log[k][1] # cb][2]

\* C25: a set that no callback disturbs (none throws or unsubscribes during
\* it) invokes each callback once per handle of it that is not destroyed:
\* not through a destroyed handle, and through every other one.
C25_DestroyedSilentOthersNotified ==
  (op.name = "set" /\ ~op.threw /\ \A k \in 1..Len(op.before) : op.before[k] \in {"f", "g"}) =>
    \A cb \in {"f", "g"} : Invocations(calls, cb) = handles[cb].live

\* C29: when a set during which a subscriber called set again has returned,
\* the last value delivered to each subscriber is the value get() returns.
C29_LastDeliveredIsCurrent ==
  (op.name = "set" /\ ~op.threw /\ cell.value # op.value) =>
    \A k \in 1..Len(cell.subscribers) :
      Invocations(calls, cell.subscribers[k]) > 0 =>
        LastDelivered(calls, cell.subscribers[k]) = cell.value

\* C30: a callback that destroys its subscription while a set is delivered
\* makes no callback that is still subscribed miss that set.
C30_DestroyInsideSetSkipsNone ==
  (op.name = "set" /\ ~op.threw /\ Invocations(calls, "once") > 0) =>
    \A k \in 1..Len(cell.subscribers) :
      \E j \in 1..Len(calls) : calls[j] = <<cell.subscribers[k], op.value>>

\* The invocations one per entry of the subscribers array, in array order.
InOrder(subs, v) == [k \in 1..Len(subs) |-> <<subs[k], v>>]

\* C11: sub(cb, true) invokes cb once with the held value before it returns,
\* and a set(v1) that returns invokes every callback subscribed at that
\* moment exactly once with v1, in subscription order.
C11_ImmediateThenInOrder ==
  /\ (op.name = "sub" /\ op.immediate) => calls = << <<op.callback, op.value>> >>
  /\ (op.name = "set" /\ ~op.threw) => calls = InOrder(op.before, op.value)

\* C12: when a callback throws during set, every other callback subscribed
\* at that moment is still invoked in that set call.
C12_ThrowDoesNotStopOthers ==
  (op.name = "set" /\ op.threw) =>
    \A k \in 1..Len(op.before) :
      \E j \in 1..Len(calls) : calls[j] = <<op.before[k], op.value>>

----------------------------------------------------------------------------
(* Properties of the SimVar and Coherent mocks and of the global document *)

\* Whether log is old with entries appended and none removed.
Extends(log, old) ==
  /\ log.head = old.head
  /\ Len(log.tail) >= Len(old.tail)
  /\ SubSeq(log.tail, 1, Len(old.tail)) = old.tail

\* C22: every setSimVarValue and every getSimVarValue appends exactly one
\* entry to the access log and drops none of the entries already in it.
C22_LogOnlyGrows ==
  [][(did'.name \in {"setSimVar", "GetSimVarValue"}) =>
       /\ LogLength(simVarMock'.accessLog) = LogLength(simVarMock.accessLog) + 1
       /\ Extends(simVarMock'.accessLog, simVarMock.accessLog)]_vars

\* C23: after env.setSimVar followed by SimVar.GetSimVarValue the access log
\* holds exactly one entry, and its operation is 'get'.
C23_OneGetEntry ==
  (did.name = "GetSimVarValue" /\ did.prev = "setSimVar") =>
    /\ simVarMock.accessLog.head = 0
    /\ Len(simVarMock.accessLog.tail) = 1
    /\ simVarMock.accessLog.tail[1].operation = "get"

\* The triples an id was registered for.
TriplesOf(m, id) ==
  { t \in Names \X Units \X DataSources : getKey(t[1], t[2], t[3]) = m.registeredIds[id] }

\* Whether map is old with key set to v and nothing else changed.
OnlyWrites(map, old, key, v) ==
  /\ key \in DOMAIN map
  /\ map[key] = v
  /\ \A k \in (DOMAIN map) \ {key} : k \in DOMAIN old /\ map[k] = old[k]

\* C24: for an id registered for (name, unit, dataSource), getValueReg(id)
\* returns what getSimVarValue(name, unit, dataSource) returns, and a
\* Coherent setValueReg call with that id stores the unit-coerced value
\* under that triple and changes no other variable.
C24_RegisteredIdIsItsTriple ==
  [][/\ (did'.name = "getValueReg" /\ did'.id \in DOMAIN simVarMock.registeredIds) =>
          \A t \in TriplesOf(simVarMock, did'.id) :
            did'.result = SimVarValueOf(simVarMock, t[1], t[2], t[3])
     /\ (/\ did'.name = "call"
         /\ coherentMock.callHandlers[did'.method] = "connected"
         /\ did'.id \in DOMAIN simVarMock.registeredIds) =>
          \A t \in TriplesOf(simVarMock, did'.id) :
            OnlyWrites(simVarMock'.simVars, simVarMock.simVars,
                       getKey(t[1], t[2], t[3]), coerceValue(did'.value, t[2]))]_vars

\* C26: in an environment that was set up and then reset, a Coherent
\* setValueReg call with a registered id still writes into the SimVar mock.
C26_ResetKeepsHandlers ==
  [][(/\ did'.name = "call"
      /\ did.reset
      /\ env.dom # 0
      /\ did'.id \in DOMAIN simVarMock.registeredIds) =>
       simVarMock'.accessLog # simVarMock.accessLog]_vars

\* C28: when a FSComponent.render call has ended, by returning or by an
\* exception, globalThis.document is the object it was before the call.
C28_DocumentRestored ==
  did.name = "render" => document = did.originalDoc

\* C21: a data prop spelled in camelCase (dataRange) and the same prop
\* spelled in kebab-case (data-range) give, on every intrinsic element, a
\* mounted element that carries the attribute data-range with the prop's
\* value, and the lookup of reconciliation queries that same attribute.
C21_CamelAndKebabAgree ==
  \A p \in DataProps :
    (pc = "queried" /\ tree[1].key \in {p.camel, p.kebab}) =>
      /\ <<p.kebab, tree[1].value>> \in dom[root].attributes
      /\ selector.attr = p.kebab

\* C27: in the Phase 2 walk over one parent's children every child match
\* moves the cursor forwards, past the matched element, and no element child
\* is matched to two child VNodes of the same parent.
C27_CursorOnlyAdvances ==
  \A i \in 1..Len(walk) :
    /\ walk[i].after >= walk[i].before
    /\ \A j \in 1..Len(walk) :
         (j # i /\ walk[j].parent = walk[i].parent) => walk[j].dom # walk[i].dom

============================================================================
